---- MODULE Spec2Model ----
(***************************************************************************)
(* Model of custom_components/crestron/fan.py: the CrestronFan entity, the *)
(* hub channels it reads and writes, and the percentage <-> 16-bit analog  *)
(* mapping.  Python evaluates the mapping in IEEE-754 binary64 ("/" is     *)
(* true division, int() truncates, round() rounds half to even), so the    *)
(* arithmetic below is binary64 arithmetic, bit for bit.                   *)
(***************************************************************************)
EXTENDS Integers, Sequences, FiniteSets, TLC

(***************************************************************************)
(* binary64 values.  Every float the entity computes is positive and       *)
(* normal.  A value is [hi, lo, e] with 53-bit significand                 *)
(* M = hi * 2^26 + lo, 2^26 <= hi < 2^27, 0 <= lo < 2^26, and              *)
(* value = M * 2^(e - 52).                                                 *)
(***************************************************************************)
Half == 67108864

Limb == 8192

RECURSIVE BitLen(_)
BitLen(n) == IF n = 0 THEN 0 ELSE 1 + BitLen(n \div 2)

\* int -> float conversion (exact for 1 <= n < 2^27)
FromInt(n) ==
  [hi |-> n * 2^(27 - BitLen(n)), lo |-> 0, e |-> BitLen(n) - 1]

\* round to nearest, ties to even: hi is 27 bits, lo27 is 26 bits plus the
\* guard bit, sticky tells whether any lower bit of the exact result is set
RoundPack(hi, lo27, sticky, e) ==
  LET lo == lo27 \div 2
      up == ((lo27 % 2) = 1) /\ (sticky \/ (lo % 2) = 1)
  IN  IF ~up THEN [hi |-> hi, lo |-> lo, e |-> e]
      ELSE IF lo + 1 < Half THEN [hi |-> hi, lo |-> lo + 1, e |-> e]
      ELSE IF hi + 1 < 2 * Half THEN [hi |-> hi + 1, lo |-> 0, e |-> e]
      ELSE [hi |-> Half, lo |-> 0, e |-> e + 1]

\* k steps of restoring division of the remainder (rh, rl) by (dh, dl);
\* the result is <<the k quotient bits, remainder hi, remainder lo>>
RECURSIVE DivBits(_, _, _, _, _)
DivBits(k, rh, rl, dh, dl) ==
  IF k = 0 THEN <<0, rh, rl>>
  ELSE LET th == 2 * rh + ((2 * rl) \div Half)
           tl == (2 * rl) % Half
           ge == th > dh \/ (th = dh /\ tl >= dl)
           nh == IF ~ge THEN th ELSE IF tl >= dl THEN th - dh ELSE th - dh - 1
           nl == IF ~ge THEN tl ELSE IF tl >= dl THEN tl - dl ELSE tl + Half - dl
           r  == DivBits(k - 1, nh, nl, dh, dl)
       IN  <<(IF ge THEN 2^(k - 1) ELSE 0) + r[1], r[2], r[3]>>

\* x / y, correctly rounded
FDiv(x, y) ==
  LET ge == x.hi > y.hi \/ (x.hi = y.hi /\ x.lo >= y.lo)
      ah == IF ge THEN x.hi ELSE 2 * x.hi + ((2 * x.lo) \div Half)
      al == IF ge THEN x.lo ELSE (2 * x.lo) % Half
      rh == IF al >= y.lo THEN ah - y.hi ELSE ah - y.hi - 1
      rl == IF al >= y.lo THEN al - y.lo ELSE al + Half - y.lo
      a1 == DivBits(13, rh, rl, y.hi, y.lo)
      a2 == DivBits(13, a1[2], a1[3], y.hi, y.lo)
      a3 == DivBits(13, a2[2], a2[3], y.hi, y.lo)
      a4 == DivBits(14, a3[2], a3[3], y.hi, y.lo)
  IN  RoundPack(Half + a1[1] * Limb + a2[1], a3[1] * 2 * Limb + a4[1],
                a4[2] # 0 \/ a4[3] # 0,
                x.e - y.e - (IF ge THEN 0 ELSE 1))

\* a / b for ints 1 <= a < 2^27 and 1 <= b < 2^17, correctly rounded: the
\* quotient is developed in 13-bit digits and cut to 53 bits
TrueDiv(a, b) ==
  LET k   == IF a >= b THEN 0
             ELSE IF a * 2^(BitLen(b) - BitLen(a)) >= b
                  THEN BitLen(b) - BitLen(a) ELSE BitLen(b) - BitLen(a) + 1
      q0  == (a * 2^k) \div b
      r0  == (a * 2^k) % b
      L   == BitLen(q0)
      d1  == (r0 * Limb) \div b
      r1  == (r0 * Limb) % b
      d2  == (r1 * Limb) \div b
      r2  == (r1 * Limb) % b
      d3  == (r2 * Limb) \div b
      r3  == (r2 * Limb) % b
      d4  == (r3 * Limb) \div b
      r4  == (r3 * Limb) % b
      d5  == (r4 * Limb) \div b
      r5  == (r4 * Limb) % b
      D12 == d1 * Limb + d2
      D34 == d3 * Limb + d4
      hi  == q0 * 2^(27 - L) + (D12 \div 2^(L - 1))
  IN  IF L = 1
      THEN RoundPack(hi, 2 * D34 + (d5 \div 4096),
                     (d5 % 4096) # 0 \/ r5 # 0, -k)
      ELSE RoundPack(hi, (D12 % 2^(L - 1)) * 2^(28 - L) + (D34 \div 2^(L - 2)),
                     (D34 % 2^(L - 2)) # 0 \/ r4 # 0, L - 1 - k)

\* x * c for an int 1 <= c < 2^16, correctly rounded (c converts exactly)
FMulInt(x, c) ==
  LET t0 == (x.lo % Limb) * c
      t1 == (x.lo \div Limb) * c + (t0 \div Limb)
      t2 == (x.hi % Limb) * c + (t1 \div Limb)
      t3 == (x.hi \div Limb) * c + (t2 \div Limb)
      T0 == (t1 % Limb) * Limb + (t0 % Limb)
      T1 == (t3 % Limb) * Limb + (t2 % Limb)
      T2 == t3 \div Limb
      s  == BitLen(T2) - 1
      hi == T2 * 2^(26 - s) + (T1 \div 2^s)
  IN  IF s = 0 THEN RoundPack(hi, 2 * T0, FALSE, x.e)
      ELSE RoundPack(hi, (T1 % 2^s) * 2^(27 - s) + (T0 \div 2^(s - 1)),
                     (T0 % 2^(s - 1)) # 0, x.e + s)

\* int(x): truncation toward zero (x < 2^26)
FInt(x) == IF x.e < 0 THEN 0 ELSE x.hi \div 2^(26 - x.e)

\* round(x): nearest integer, ties to even (x < 2^26)
FRound(x) ==
  IF x.e < -1 THEN 0
  ELSE IF x.e = -1 THEN (IF x.hi = Half /\ x.lo = 0 THEN 0 ELSE 1)
  ELSE LET ip   == x.hi \div 2^(26 - x.e)
           fh   == x.hi % 2^(26 - x.e)
           g    == fh \div 2^(25 - x.e)
           rest == (fh % 2^(25 - x.e)) # 0 \/ x.lo # 0
       IN  IF g = 1 /\ (rest \/ (ip % 2) = 1) THEN ip + 1 ELSE ip

Max(a, b) == IF a >= b THEN a ELSE b

Min(a, b) == IF a <= b THEN a ELSE b

\* Python None: config.get() of an optional key that is absent
None == -1

(***************************************************************************)
(* The mapping, as CrestronFan computes it.                                *)
(***************************************************************************)
\* body of the percentage property for a raw value read from the hub
PercentageOf(speed_steps, raw_value) ==
  IF raw_value = 0 THEN 0
  ELSE IF speed_steps # None THEN
    LET step_size    == TrueDiv(65535, speed_steps)
        current_step == Min(speed_steps,
                            Max(1, FRound(FDiv(FromInt(raw_value), step_size))))
    IN  FInt(FMulInt(TrueDiv(current_step, speed_steps), 100))
  ELSE Max(1, Min(100, FInt(FMulInt(TrueDiv(raw_value, 65535), 100))))

\* AnalogValueOf with the lower clamp max(1, ...) on the step left out
AnalogValueOf_unclamped(speed_steps, percentage) ==
  IF speed_steps # None THEN
    LET step == Min(speed_steps,
                  FRound(FMulInt(TrueDiv(percentage, 100), speed_steps)))
    IN  IF step = 0 THEN 0 ELSE FInt(TrueDiv(step * 65535, speed_steps))
  ELSE FInt(FMulInt(TrueDiv(percentage, 100), 65535))

\* analog_value computed by async_set_percentage for a nonzero percentage
AnalogValueOf(speed_steps, percentage) ==
  IF speed_steps # None THEN
    LET step == Max(1, Min(speed_steps,
                  FRound(FMulInt(TrueDiv(percentage, 100), speed_steps))))
    IN  FInt(TrueDiv(step * 65535, speed_steps))
  ELSE FInt(FMulInt(TrueDiv(percentage, 100), 65535))

\* percentage async_turn_on passes on when called without one
DefaultPercentage(speed_steps) ==
  IF speed_steps # None
  THEN FInt(FMulInt(TrueDiv(1, speed_steps), 100))
  ELSE 1

(***************************************************************************)
(* Bounds of the model.                                                    *)
(***************************************************************************)
\* step counts 1..MaxSteps are configured in the entity model
MaxSteps == 4

\* step counts 1..MaxMappingSteps are configured in the mapping model
MaxMappingSteps == 110

\* async_write_ha_state calls that are counted
MaxPublished == 2

StepChoices == 1..MaxSteps

MappingStepChoices == 1..MaxMappingSteps

\* percentages the host platform commands in the entity model
Percentages == {0, 1, 50, 100}

\* every percentage of the platform's 0..100 range
AllPercentages == 0..100

\* raw values the control system reports on an analog join
RawInputs == {0, 1, 984, 43690, 65535}

Directions == {"forward", "reverse"}

(***************************************************************************)
(* Configuration and state.                                                *)
(***************************************************************************)
\* CONF_SPEED_JOIN of this fan; the hub carries a second analog join too
speed_join == 1

other_analog_join == 2

\* CONF_REVERSE_JOIN when configured; the hub carries a second digital join
configured_reverse_join == 1

other_digital_join == 2

AnalogJoins == {speed_join, other_analog_join}

DigitalJoins == {configured_reverse_join, other_digital_join}

\* the bound method self.process_callback, and a listener of another entity
process_callback == "CrestronFan.process_callback"

other_callback == "other entity"

VARIABLES
  speed_steps,   \* self._speed_steps: None or the configured step count
  reverse_join,  \* self._reverse_join: None or a digital join
  analog,        \* the hub's analog values, by join
  digital,       \* the hub's digital values, by join
  callbacks,     \* the callbacks registered with the hub
  added,         \* the host platform has added the entity
  published,     \* number of async_write_ha_state calls so far
  last           \* the last operation performed and its arguments

vars == <<speed_steps, reverse_join, analog, digital, callbacks, added,
          published, last>>

config == <<speed_steps, reverse_join>>

Op(name, arg, pct) == [op |-> name, arg |-> arg, pct |-> pct]

\* the hub and the host platform before the entity is added
Fresh ==
  /\ analog = [j \in AnalogJoins |-> 0]
  /\ digital = [j \in DigitalJoins |-> FALSE]
  /\ callbacks = {other_callback}
  /\ added = FALSE
  /\ published = 0
  /\ last = Op("init", None, None)

\* __init__: the configuration is stored; nothing is written to the hub
Init ==
  /\ speed_steps \in {None} \cup StepChoices
  /\ reverse_join \in {None, configured_reverse_join}
  /\ Fresh

(***************************************************************************)
(* The hub.                                                                *)
(***************************************************************************)
get_analog(join) == analog[join]

get_digital(join) == digital[join]

set_analog(join, value) == analog' = [analog EXCEPT ![join] = value]

set_digital(join, value) == digital' = [digital EXCEPT ![join] = value]

register_callback(fn) == callbacks' = callbacks \cup {fn}

remove_callback(fn) == callbacks' = callbacks \ {fn}

(***************************************************************************)
(* State properties of the entity.                                         *)
(***************************************************************************)
percentage == PercentageOf(speed_steps, get_analog(speed_join))

is_on == percentage # None /\ percentage > 0

\* Python None as a direction
NoDirection == "None"

current_direction ==
  IF reverse_join = None THEN NoDirection
  ELSE IF get_digital(reverse_join) THEN "reverse" ELSE "forward"

(***************************************************************************)
(* Command handlers of the entity: their effect on the hub.                *)
(***************************************************************************)
async_turn_off == set_analog(speed_join, 0) /\ UNCHANGED digital

async_set_percentage(pct) ==
  IF pct = 0 THEN async_turn_off
  ELSE set_analog(speed_join, AnalogValueOf(speed_steps, pct)) /\ UNCHANGED digital

\* the percentage async_turn_on passes on to async_set_percentage
TurnOnPercentage(pct) ==
  IF pct = None THEN DefaultPercentage(speed_steps) ELSE pct

async_turn_on(pct) == async_set_percentage(TurnOnPercentage(pct))

\* async_set_direction with the "no reverse join" return left out
async_set_direction_unguarded(direction) ==
  set_digital(configured_reverse_join, direction = "reverse") /\ UNCHANGED analog

async_set_direction(direction) ==
  IF reverse_join = None THEN UNCHANGED <<analog, digital>>
  ELSE set_digital(reverse_join, direction = "reverse") /\ UNCHANGED analog

async_added_to_hass == register_callback(process_callback)

\* async_will_remove_from_hass that leaves the registration in place
async_will_remove_from_hass_skipped == UNCHANGED callbacks

async_will_remove_from_hass == remove_callback(process_callback)

\* the hub invokes every registered callback; process_callback publishes
Notify ==
  published' = published + (IF process_callback \in callbacks THEN 1 ELSE 0)

(***************************************************************************)
(* Steps: service calls of the host platform, its entity lifecycle, and    *)
(* changes the control system reports to the hub.                          *)
(***************************************************************************)
SetPercentage(p) ==
  /\ async_set_percentage(p)
  /\ last' = Op("async_set_percentage", p, p)
  /\ UNCHANGED <<config, callbacks, added, published>>

TurnOn(p) ==
  /\ async_turn_on(p)
  /\ last' = Op("async_turn_on", p, TurnOnPercentage(p))
  /\ UNCHANGED <<config, callbacks, added, published>>

TurnOff ==
  /\ async_turn_off
  /\ last' = Op("async_turn_off", None, None)
  /\ UNCHANGED <<config, callbacks, added, published>>

SetDirection(d) ==
  /\ async_set_direction(d)
  /\ last' = Op("async_set_direction", d, None)
  /\ UNCHANGED <<config, callbacks, added, published>>

Attach ==
  /\ ~added
  /\ async_added_to_hass
  /\ added' = TRUE
  /\ last' = Op("async_added_to_hass", None, None)
  /\ UNCHANGED <<config, analog, digital, published>>

Detach ==
  /\ added
  /\ async_will_remove_from_hass
  /\ added' = FALSE
  /\ last' = Op("async_will_remove_from_hass", None, None)
  /\ UNCHANGED <<config, analog, digital, published>>

HubAnalog(j, v) ==
  /\ process_callback \in callbacks => published < MaxPublished
  /\ set_analog(j, v)
  /\ Notify
  /\ last' = Op("hub_analog", <<j, v>>, None)
  /\ UNCHANGED <<config, digital, callbacks, added>>

HubDigital(j, b) ==
  /\ process_callback \in callbacks => published < MaxPublished
  /\ set_digital(j, b)
  /\ Notify
  /\ last' = Op("hub_digital", <<j, b>>, None)
  /\ UNCHANGED <<config, analog, callbacks, added>>

Next ==
  \/ \E p \in Percentages : SetPercentage(p)
  \/ \E p \in Percentages \cup {None} : TurnOn(p)
  \/ TurnOff
  \/ \E d \in Directions : SetDirection(d)
  \/ Attach
  \/ Detach
  \/ \E v \in RawInputs : HubAnalog(speed_join, v)
  \/ HubAnalog(other_analog_join, 1)
  \/ \E b \in BOOLEAN : HubDigital(configured_reverse_join, b)
  \/ HubDigital(other_digital_join, TRUE)

Spec == Init /\ [][Next]_vars

(***************************************************************************)
(* The mapping model: one speed command, or one reported raw value, on a   *)
(* freshly constructed entity, for every percentage and every step count   *)
(* up to MaxMappingSteps.  The mapping does not depend on earlier state.   *)
(***************************************************************************)
InitMapping ==
  /\ speed_steps \in {None} \cup MappingStepChoices
  /\ reverse_join = None
  /\ Fresh

NextMapping ==
  /\ last.op = "init"
  /\ \/ \E p \in AllPercentages : SetPercentage(p)
     \/ \E p \in AllPercentages \cup {None} : TurnOn(p)
     \/ \E v \in RawInputs : HubAnalog(speed_join, v)

SpecMapping == InitMapping /\ [][NextMapping]_vars

(***************************************************************************)
(* The mapping as the specification words it: every "round" is rounding    *)
(* of the exact quotient to the nearest integer (ties to even).            *)
(***************************************************************************)
RoundNearest(a, b) ==
  LET q == a \div b
      r == a % b
  IN  IF 2 * r > b THEN q + 1
      ELSE IF 2 * r < b THEN q
      ELSE IF (q % 2) = 0 THEN q ELSE q + 1

Clamp(x, lo, hi) == Max(lo, Min(hi, x))

StatedAnalogValue(steps, p) ==
  IF steps # None
  THEN RoundNearest(Clamp(RoundNearest(p * steps, 100), 1, steps) * 65535, steps)
  ELSE RoundNearest(p * 65535, 100)

StatedPercentage(steps, r) ==
  IF steps # None
  THEN RoundNearest(100 * Clamp(RoundNearest(r * steps, 65535), 1, steps), steps)
  ELSE Clamp(RoundNearest(100 * r, 65535), 1, 100)

StatedDefault(steps) == IF steps # None THEN RoundNearest(100, steps) ELSE 1

\* what async_set_percentage(p) leaves in the hub of a fresh entity
WrittenBy(p) == IF p = 0 THEN 0 ELSE AnalogValueOf(speed_steps, p)

\* every channel but the speed join is as the fresh hub had it
OnlySpeedWritten ==
  /\ analog[other_analog_join] = 0
  /\ \A j \in DigitalJoins : digital[j] = FALSE

(***************************************************************************)
(* Claims.                                                                 *)
(***************************************************************************)
\* C1: async_turn_on without a percentage never passes percentage 0 on and
\* never leaves raw value 0 on the speed join, for any configuration.
C1_TurnOnNeverTurnsOff ==
  (last.op = "async_turn_on" /\ last.arg = None)
    => (last.pct # 0 /\ get_analog(speed_join) # 0)

\* C2: async_set_percentage(p) with p in 1..100 leaves a raw value in 1..65535
\* on the speed join, and async_set_percentage(0) leaves exactly 0.
C2_EncoderSeparation ==
  last.op = "async_set_percentage"
    => /\ last.arg \in 1..100 => get_analog(speed_join) \in 1..65535
       /\ last.arg = 0 => get_analog(speed_join) = 0

\* C2 witness: the lowest percentage in stepped mode, where round() gives
\* step 0 and the clamp lifts it to step 1
C2_Witness ==
  /\ last.op = "async_set_percentage"
  /\ last.arg = 1
  /\ speed_steps = 3
  /\ get_analog(speed_join) = 21845

\* C3: percentage is 0 when the raw speed value is 0 and at least 1 for every
\* raw value in 1..65535, so is_on holds exactly when the raw value is nonzero.
C3_DecoderSeparation ==
  /\ get_analog(speed_join) = 0 => percentage = 0
  /\ get_analog(speed_join) \in 1..65535 => percentage >= 1
  /\ is_on <=> get_analog(speed_join) # 0

\* C4: in stepped mode with S steps, when the raw value is round(k*65535/S)
\* for a step k in 1..S, percentage is round(k/S*100).
C4_SteppedRoundTrip ==
  speed_steps # None =>
    \A k \in 1..speed_steps :
      get_analog(speed_join) = RoundNearest(k * 65535, speed_steps)
        => percentage = RoundNearest(100 * k, speed_steps)

\* C5: async_set_percentage(p) with p in 1..100 writes the stated raw value
\* (round(k*65535/S) with k = clamp(round(p/100*S), 1, S), or
\* round(p/100*65535) when stepless) and writes no other channel.
C5_EncoderMapping ==
  (last.op = "async_set_percentage" /\ last.arg \in 1..100)
    => /\ get_analog(speed_join) = StatedAnalogValue(speed_steps, last.arg)
       /\ OnlySpeedWritten

\* C6: for every raw value in 1..65535, percentage is the stated value
\* (round(current_step/S*100) with current_step = clamp(round(r/(65535/S)), 1, S),
\* or clamp(round(r/65535*100), 1, 100) when stepless), computed from the
\* hub's current value.
C6_DecoderMapping ==
  get_analog(speed_join) \in 1..65535
    => percentage = StatedPercentage(speed_steps, get_analog(speed_join))

\* C7: async_turn_on without a percentage passes on round(100/S) (1 when
\* stepless) and has the effect of async_set_percentage with that value;
\* with a percentage p it has the effect of async_set_percentage(p).
C7_TurnOnDefault ==
  last.op = "async_turn_on" =>
    LET q == IF last.arg = None THEN StatedDefault(speed_steps) ELSE last.arg
    IN  /\ last.pct = q
        /\ get_analog(speed_join) = WrittenBy(q)
        /\ OnlySpeedWritten

\* C8: without a reverse join current_direction is None in every state and
\* async_set_direction changes no analog and no digital value; with a
\* reverse join async_set_direction(d) changes only that digital join, to
\* (d = "reverse"), and leaves every analog value as it was.
C8_Direction ==
  [][/\ reverse_join = None => current_direction = NoDirection
     /\ last'.op = "async_set_direction" =>
          /\ analog' = analog
          /\ IF reverse_join = None
             THEN digital' = digital
             ELSE /\ digital'[reverse_join] = (last'.arg = "reverse")
                  /\ \A j \in DigitalJoins \ {reverse_join} :
                       digital'[j] = digital[j]
                  /\ current_direction' = last'.arg]_vars

\* C8 witness: async_set_direction("reverse") was called on an entity without
\* a reverse join while the hub's channels hold values that a write to any
\* channel would have changed
C8_Witness ==
  /\ last.op = "async_set_direction"
  /\ last.arg = "reverse"
  /\ reverse_join = None
  /\ digital[configured_reverse_join] = FALSE
  /\ digital[other_digital_join] = TRUE
  /\ get_analog(speed_join) = 65535

\* C9: while the entity is added its callback is registered and every hub
\* change publishes once; after async_will_remove_from_hass the hub holds no
\* registration of it (other listeners stay registered) and no hub change
\* publishes.  Nothing but a hub change publishes.
C9_CallbackRegistration ==
  [][/\ added' <=> process_callback \in callbacks'
     /\ other_callback \in callbacks'
     /\ last'.op \in {"hub_analog", "hub_digital"}
          => published' = published + (IF added THEN 1 ELSE 0)
     /\ last'.op \notin {"hub_analog", "hub_digital"}
          => published' = published]_vars

\* C9 witness: a hub change arrives after attach, publish, detach, attach
\* and detach again, and the entity is not registered
C9_Witness ==
  /\ last.op = "hub_analog"
  /\ ~added
  /\ published = 1
  /\ process_callback \notin callbacks
  /\ get_analog(speed_join) = 984
  /\ get_analog(other_analog_join) = 1

\* C10: after async_set_percentage(p), p in 1..100, percentage is p in
\* stepless mode; with S <= 100 steps the percentage q read back is a fixed
\* point: async_set_percentage(q) would write the raw value that is there.
C10_SetThenRead ==
  (last.op = "async_set_percentage" /\ last.arg \in 1..100)
    => IF speed_steps = None
       THEN percentage = last.arg
       ELSE speed_steps <= 100 => WrittenBy(percentage) = get_analog(speed_join)

====
